---- MODULE Spec2Model ----
(***************************************************************************)
(* Model of the screeps-async runtime (src/screeps-async/src/runtime.rs):  *)
(* the thread-local CURRENT registration, ScreepsRuntime::new, Drop, and   *)
(* ScreepsRuntime::run with its timer-firing block and its budget-bounded  *)
(* polling loop.  The host (game_time, time_used), spawn and the timer     *)
(* future live outside runtime.rs and are modelled from the specification. *)
(***************************************************************************)
EXTENDS Integers, Sequences, FiniteSets, TLC

\* ---------------------------------------------------------------- bounds
NumTasks == 3      \* computations that can exist during one runtime's life
MaxCycle == 2      \* the host's cycle counter runs over 0..MaxCycle
MaxUsage == 2      \* usage readings and budgets are in units of 1/MaxUsage
MaxRegs  == 2      \* timer registrations made during one runtime's life

Tasks   == 1..NumTasks
Cycles  == 0..MaxCycle
Targets == 1..MaxCycle
Usages  == 0..MaxUsage
Budgets == 1..MaxUsage

\* an empty (tombstoned) slot of a registry entry: Option<Waker>::None
None == [task |-> 0, reg |-> 0]

VARIABLES
    current,     \* CURRENT is Some(ThreadLocalRuntime)
    liveCount,   \* number of ScreepsRuntime values that exist
    allocation,  \* config.tick_time_allocation of the live runtime
    queue,       \* the flume channel: runnables sent and not yet received
    timers,      \* TimerMap: key -> sequence of optional wakers
    status,      \* per computation: unspawned, queued, parked, done
    when,        \* per computation: target of the timer it awaits, 0 if none
    cycle,       \* the host's game_time()
    usage,       \* the host's time_used()
    pc,          \* "idle": host code runs; "loop": inside run()'s while loop
    lastOp,      \* the latest operation and its outcome
    nextReg,     \* number of the next timer registration
    fireCount,   \* per registration: how often run() invoked its waker
    pushLog,     \* every runnable sent on the channel, in order
    resumeLog,   \* every runnable run by run(), in order
    locked,      \* the registry's Mutex is held
    lastPark     \* target of the timer first polled by the latest step, or 0

vars == <<current, liveCount, allocation, queue, timers, status, when, cycle,
          usage, pc, lastOp, nextReg, fireCount, pushLog, resumeLog, locked,
          lastPark>>

\* the variables owned by one runtime (its channel, registry and tasks)
rtVars == <<queue, timers, status, when, nextReg, fireCount, pushLog,
            resumeLog>>

EmptyTimers == [k \in {} |-> <<>>]

Init ==
    /\ current = FALSE
    /\ liveCount = 0
    /\ allocation = MaxUsage
    /\ queue = <<>>
    /\ timers = EmptyTimers
    /\ status = [t \in Tasks |-> "unspawned"]
    /\ when = [t \in Tasks |-> 0]
    /\ cycle = 0
    /\ usage \in Usages
    /\ pc = "idle"
    /\ lastOp = "init"
    /\ nextReg = 1
    /\ fireCount = [r \in 1..MaxRegs |-> 0]
    /\ pushLog = <<>>
    /\ resumeLog = <<>>
    /\ locked = FALSE
    /\ lastPark = 0

\* ------------------------------------------------------------ run(): timers
\* variants of Due: one cycle early, and one cycle late
DueEarly(t, now) == t <= now + 1
DueLate(t, now) == t < now

\* line 122: the take_while predicate, a trigger at or before game_time
Due(t, now) == t <= now

Min(S) == CHOOSE m \in S : \A x \in S : m <= x

\* variant of Keys: the keys in descending order
RECURSIVE KeysDescending(_)
KeysDescending(S) ==
    IF S = {} THEN <<>> ELSE KeysDescending(S \ {Min(S)}) \o <<Min(S)>>

\* BTreeMap::keys(): the keys in ascending order
RECURSIVE Keys(_)
Keys(S) == IF S = {} THEN <<>> ELSE <<Min(S)>> \o Keys(S \ {Min(S)})

\* variant of TakeWhileDue: only the first due key is taken
TakeFirstDue(ks, now) ==
    IF ks = <<>> \/ ~Due(Head(ks), now) THEN <<>> ELSE <<Head(ks)>>

RECURSIVE TakeWhileDue(_, _)
TakeWhileDue(ks, now) ==
    IF ks = <<>> \/ ~Due(Head(ks), now)
    THEN <<>>
    ELSE <<Head(ks)>> \o TakeWhileDue(Tail(ks), now)

\* lines 119-123: timers_to_fire
TimersToFire(tm, now) == TakeWhileDue(Keys(DOMAIN tm), now)

\* variant of Flatten: the iteration stops at the first None slot
RECURSIVE FlattenUntilNone(_)
FlattenUntilNone(slots) ==
    IF slots = <<>> \/ Head(slots) = None
    THEN <<>>
    ELSE <<Head(slots)>> \o FlattenUntilNone(Tail(slots))

\* line 129: into_iter().flatten() skips the None slots and keeps the order
Flatten(slots) == SelectSeq(slots, LAMBDA s : s # None)

\* lines 126-133: the wakers invoked, in the order the loops invoke them
RECURSIVE Fired(_, _)
Fired(tm, ks) ==
    IF ks = <<>>
    THEN <<>>
    ELSE LET k  == Head(ks)
             ws == IF k \in DOMAIN tm THEN Flatten(tm[k]) ELSE <<>>
         IN  [i \in 1..Len(ws) |->
                 [key |-> k, task |-> ws[i].task, reg |-> ws[i].reg]]
             \o Fired(tm, Tail(ks))

\* variants of RemoveEntries: the fired entries stay in the map; the whole
\* map is cleared
KeepEntries(tm, ks) == tm
RemoveAllEntries(tm, ks) == [k \in {} |-> <<>>]

\* line 129: entry.remove() takes each fired key out of the map
RemoveEntries(tm, ks) ==
    [k \in DOMAIN tm \ {ks[i] : i \in DOMAIN ks} |-> tm[k]]

\* variant of WakeAll: the wakers are dropped without being invoked
WakeNothing(fs, q, st) == [queue |-> q, status |-> st]

\* line 130: waker.wake() sends the task's runnable on the channel when the
\* task is parked; waking a task that is scheduled or finished does nothing
RECURSIVE WakeAll(_, _, _)
WakeAll(fs, q, st) ==
    IF fs = <<>>
    THEN [queue |-> q, status |-> st]
    ELSE LET t == Head(fs).task
         IN  IF st[t] = "parked"
             THEN WakeAll(Tail(fs), Append(q, t), [st EXCEPT ![t] = "queued"])
             ELSE WakeAll(Tail(fs), q, st)

CountFired(fs, r) == Cardinality({i \in DOMAIN fs : fs[i].reg = r})

\* variant of LockAfterFire: the guard lives until run() returns
LockHeldAfterFire == TRUE

\* lines 115, 134: the MutexGuard is a local of the first block, so the lock
\* is released where the block ends
LockAfterFire == FALSE

\* variant of RunFire: run() enters its loop without the timer block
RunDrainFirst ==
    /\ pc = "idle"
    /\ liveCount > 0
    /\ pc' = "loop"
    /\ lastOp' = "fire"
    /\ lastPark' = 0
    /\ UNCHANGED <<current, liveCount, allocation, queue, timers, status, when,
                   cycle, usage, nextReg, fireCount, pushLog, resumeLog, locked>>

\* A run() call is the step RunFire followed by loop iterations, one step
\* each: RunResume (a runnable is run: the computation's own code executes
\* between two readings of time_used()), RunBreak or RunExhausted.
\* lines 115-134: the first block of run(), done under the registry lock
RunFire ==
    /\ pc = "idle"
    /\ liveCount > 0
    /\ lastPark' = 0
    /\ IF locked
       THEN \* line 117: try_lock() fails and unwrap() panics
            /\ lastOp' = "lock_panic"
            /\ UNCHANGED <<pc, locked, timers, queue, status, fireCount, pushLog>>
       ELSE /\ LET game_time      == cycle
                   timers_to_fire == TimersToFire(timers, game_time)
                   fired          == Fired(timers, timers_to_fire)
                   w              == WakeAll(fired, queue, status)
               IN  /\ timers' = RemoveEntries(timers, timers_to_fire)
                   /\ queue' = w.queue
                   /\ status' = w.status
                   /\ fireCount' = [r \in DOMAIN fireCount |->
                                       fireCount[r] + CountFired(fired, r)]
                   /\ pushLog' = pushLog \o
                                    SubSeq(w.queue, Len(queue) + 1, Len(w.queue))
            /\ locked' = LockAfterFire
            /\ pc' = "loop"
            /\ lastOp' = "fire"
    /\ UNCHANGED <<current, liveCount, allocation, when, cycle, usage,
                   nextReg, resumeLog>>

\* ------------------------------------------------------- run(): polling loop
\* variants of WithinBudget: operands swapped, no test, strict comparison
WithinBudgetSwapped(used, alloc) == alloc <= used
WithinBudgetUnchecked(used, alloc) == TRUE
WithinBudgetStrict(used, alloc) == used < alloc

\* line 137: the while condition
WithinBudget(used, alloc) == used <= alloc

\* variant of TryRecv: takes the newest runnable
TryRecvNewest(q) == [runnable |-> q[Len(q)], rest |-> SubSeq(q, 1, Len(q) - 1)]

\* line 138: try_recv() takes the oldest runnable of the channel
TryRecv(q) == [runnable |-> Head(q), rest |-> Tail(q)]

\* the timer future registers its waker under its target cycle
Schedule(tm, T, w) ==
    [k \in DOMAIN tm \cup {T} |->
        IF k \in DOMAIN tm
        THEN (IF k = T THEN Append(tm[k], w) ELSE tm[k])
        ELSE <<w>>]

\* the computation a spawn call creates: computations are numbered in the
\* order they are spawned
NextTask(st) ==
    LET free == {k \in Tasks : st[k] = "unspawned"}
    IN  IF free = {} THEN {} ELSE {Min(free)}

\* spawn: the new task's runnable is sent on the channel
Push(q, t) == Append(q, t)

\* variant of AlreadyDue: a target equal to the current cycle is not due
AlreadyDueStrict(T, now) == now > T

\* the timer future's test on each poll: the target cycle has arrived
AlreadyDue(T, now) == now >= T

\* line 139: runnable.run() polls computation t once.  The computation may
\* spawn one task (kid # 0) and then either completes (end = 0) or awaits a
\* timer with target `end`.  q is the channel after the receive.
Poll(t, q, kid, end) ==
    IF when[t] # 0 /\ cycle < when[t]
    THEN \* the awaited timer is polled again and is still pending
         /\ kid = 0 /\ end = 0
         /\ status' = [status EXCEPT ![t] = "parked"]
         /\ queue' = q
         /\ lastPark' = 0
         /\ lastOp' = "resume"
         /\ UNCHANGED <<when, timers, nextReg, pushLog, pc, locked>>
    ELSE LET q1  == IF kid = 0 THEN q ELSE Push(q, kid)
             st1 == IF kid = 0 THEN status ELSE [status EXCEPT ![kid] = "queued"]
         IN  /\ queue' = q1
             /\ pushLog' = IF kid = 0 THEN pushLog ELSE Append(pushLog, kid)
             /\ lastPark' = end
             /\ IF end = 0 \/ AlreadyDue(end, cycle)
                THEN \* completes, or the timer is already due: no registration
                     /\ status' = [st1 EXCEPT ![t] = "done"]
                     /\ when' = [when EXCEPT ![t] = 0]
                     /\ lastOp' = "resume"
                     /\ UNCHANGED <<timers, nextReg, pc, locked>>
                ELSE IF locked
                THEN \* the registry is locked: registering panics, and the
                     \* panic leaves run()
                     /\ status' = [st1 EXCEPT ![t] = "done"]
                     /\ when' = [when EXCEPT ![t] = 0]
                     /\ lastOp' = "lock_panic"
                     /\ pc' = "idle"
                     /\ locked' = FALSE
                     /\ UNCHANGED <<timers, nextReg>>
                ELSE /\ nextReg <= MaxRegs
                     /\ timers' = Schedule(timers, end, [task |-> t, reg |-> nextReg])
                     /\ nextReg' = nextReg + 1
                     /\ status' = [st1 EXCEPT ![t] = "parked"]
                     /\ when' = [when EXCEPT ![t] = end]
                     /\ lastOp' = "resume"
                     /\ UNCHANGED <<pc, locked>>

\* lines 137-139: the budget allows it and a runnable is there: run it
RunResume ==
    /\ pc = "loop"
    /\ WithinBudget(usage, allocation)
    /\ queue # <<>>
    /\ LET r == TryRecv(queue)
       IN  /\ resumeLog' = Append(resumeLog, r.runnable)
           /\ \E kid \in {0} \cup NextTask(status),
                 end \in {0} \cup Targets :
                 Poll(r.runnable, r.rest, kid, end)
    /\ usage' \in usage..MaxUsage
    /\ UNCHANGED <<current, liveCount, allocation, cycle, fireCount>>

\* lines 140-143: the channel is empty: break
RunBreak ==
    /\ pc = "loop"
    /\ WithinBudget(usage, allocation)
    /\ queue = <<>>
    /\ pc' = "idle"
    /\ lastOp' = "break"
    /\ lastPark' = 0
    /\ UNCHANGED <<current, liveCount, allocation, cycle, usage, locked, rtVars>>

\* line 137: the while condition fails: run() returns
RunExhausted ==
    /\ pc = "loop"
    /\ ~WithinBudget(usage, allocation)
    /\ pc' = "idle"
    /\ lastOp' = "exhausted"
    /\ lastPark' = 0
    /\ UNCHANGED <<current, liveCount, allocation, cycle, usage, locked, rtVars>>

\* ------------------------------------------------------------- construction
\* variant of New: CURRENT is overwritten without looking at it
NewUnchecked(b) ==
    /\ pc = "idle"
    /\ liveCount < 2
    /\ current' = TRUE
    /\ liveCount' = liveCount + 1
    /\ allocation' = b
    /\ lastOp' = "new"
    /\ lastPark' = 0
    /\ UNCHANGED <<cycle, usage, pc, locked, rtVars>>

\* variant of New: CURRENT is replaced by the new channel and registry
\* before the panic
NewClobbers(b) ==
    /\ pc = "idle"
    /\ IF current
       THEN /\ lastOp' = "new_panic"
            /\ queue' = <<>>
            /\ timers' = EmptyTimers
            /\ UNCHANGED <<current, liveCount, allocation>>
       ELSE /\ current' = TRUE
            /\ liveCount' = liveCount + 1
            /\ allocation' = b
            /\ lastOp' = "new"
            /\ UNCHANGED <<queue, timers>>
    /\ lastPark' = 0
    /\ UNCHANGED <<cycle, usage, pc, locked, status, when, nextReg, fireCount,
                   pushLog, resumeLog>>

\* lines 84-106: ScreepsRuntime::new; panics when CURRENT is already Some
New(b) ==
    /\ pc = "idle"
    /\ IF current
       THEN /\ lastOp' = "new_panic"
            /\ UNCHANGED <<current, liveCount, allocation>>
       ELSE /\ current' = TRUE
            /\ liveCount' = liveCount + 1
            /\ allocation' = b
            /\ lastOp' = "new"
    /\ lastPark' = 0
    /\ UNCHANGED <<cycle, usage, pc, locked, rtVars>>

\* lines 148-154: Drop clears CURRENT; the channel, the registry and the
\* tasks they hold go away with the runtime
DropRuntime ==
    /\ pc = "idle"
    /\ liveCount > 0
    /\ current' = FALSE
    /\ liveCount' = liveCount - 1
    /\ queue' = <<>>
    /\ timers' = EmptyTimers
    /\ status' = [t \in Tasks |-> "unspawned"]
    /\ when' = [t \in Tasks |-> 0]
    /\ nextReg' = 1
    /\ fireCount' = [r \in 1..MaxRegs |-> 0]
    /\ pushLog' = <<>>
    /\ resumeLog' = <<>>
    /\ lastOp' = "drop"
    /\ lastPark' = 0
    /\ UNCHANGED <<allocation, cycle, usage, pc, locked>>

\* ------------------------------------------------------------ host and tasks
\* variant of Spawn: the computation is run to completion inside spawn
SpawnRunsNow(t) ==
    /\ pc = "idle"
    /\ t \in NextTask(status)
    /\ current
    /\ status' = [status EXCEPT ![t] = "done"]
    /\ lastOp' = "spawn"
    /\ lastPark' = 0
    /\ UNCHANGED <<current, liveCount, allocation, queue, timers, when, cycle,
                   usage, pc, nextReg, fireCount, pushLog, resumeLog, locked>>

\* spawn(computation) called by the host between run() calls
Spawn(t) ==
    /\ pc = "idle"
    /\ t \in NextTask(status)
    /\ IF current
       THEN /\ queue' = Push(queue, t)
            /\ status' = [status EXCEPT ![t] = "queued"]
            /\ pushLog' = Append(pushLog, t)
            /\ lastOp' = "spawn"
       ELSE /\ lastOp' = "spawn_panic"
            /\ UNCHANGED <<queue, status, pushLog>>
    /\ UNCHANGED <<current, liveCount, allocation, timers, when, cycle, usage,
                   pc, nextReg, fireCount, resumeLog, locked>>
    /\ lastPark' = 0

\* a parked computation is dropped: its slot becomes a tombstone
Tombstone(slots, t) ==
    [i \in DOMAIN slots |-> IF slots[i].task = t THEN None ELSE slots[i]]

Cancel(t) ==
    /\ pc = "idle"
    /\ status[t] = "parked"
    /\ timers' = [k \in DOMAIN timers |-> Tombstone(timers[k], t)]
    /\ status' = [status EXCEPT ![t] = "done"]
    /\ when' = [when EXCEPT ![t] = 0]
    /\ lastOp' = "cancel"
    /\ UNCHANGED <<current, liveCount, allocation, queue, cycle, usage, pc,
                   nextReg, fireCount, pushLog, resumeLog, locked>>
    /\ lastPark' = 0

\* the host advances its cycle counter between run() calls; the new cycle
\* starts with whatever usage the host's own code has caused
Tick ==
    /\ pc = "idle"
    /\ cycle < MaxCycle
    /\ cycle' = cycle + 1
    /\ usage' \in Usages
    /\ lastOp' = "tick"
    /\ lastPark' = 0
    /\ UNCHANGED <<current, liveCount, allocation, pc, locked, rtVars>>

Next ==
    \/ \E b \in Budgets : New(b)
    \/ DropRuntime
    \/ \E t \in Tasks : Spawn(t)
    \/ \E t \in Tasks : Cancel(t)
    \/ Tick
    \/ RunFire
    \/ RunResume
    \/ RunBreak
    \/ RunExhausted

Spec == Init /\ [][Next]_vars

\* The life of one runtime that is never destroyed.  Once the loop test has
\* passed with a runnable in the channel, lines 138-139 run: nothing else
\* can happen in between.
NextLive ==
    \/ \E b \in Budgets : New(b)
    \/ \E t \in Tasks : Spawn(t)
    \/ \E t \in Tasks : Cancel(t)
    \/ Tick
    \/ RunFire
    \/ RunResume
    \/ RunBreak
    \/ RunExhausted

FairSpec == Init /\ [][NextLive]_vars /\ WF_vars(RunResume)

\* ------------------------------------------------------------------ claims
\* this step is one resumption by run()'s loop (line 139)
Resumes == Len(resumeLog') = Len(resumeLog) + 1
Resumed == resumeLog'[Len(resumeLog')]

\* the latest step belongs to a run() call / is the last step of one
InRun == lastOp \in {"fire", "resume", "break", "exhausted"}
Returned == lastOp \in {"break", "exhausted"}

\* C1: budget respect.  Every resumption by run() starts with a usage reading
\* at or below the budget, and a loop test that reads usage above the budget
\* ends the call without resuming anything.
BudgetRespect ==
    [][ /\ (Resumes => usage <= allocation)
        /\ (pc = "loop" /\ usage > allocation
               => pc' = "idle" /\ resumeLog' = resumeLog) ]_vars

\* run() stopped on the budget with work pending, after earlier resumptions
BudgetRespectWitness ==
    /\ lastOp = "exhausted"
    /\ usage > allocation
    /\ queue # <<>>
    /\ resumeLog # <<>>

\* C2: timer never early.  A computation that awaits a timer with target T
\* is not resumed by run() while the cycle is below T.
TimerNeverEarly ==
    [][ Resumes => (when[Resumed] = 0 \/ when[Resumed] <= cycle) ]_vars

\* a computation has been resumed, parked on a timer, and resumed again
TimerNeverEarlyWitness ==
    /\ lastOp = "resume"
    /\ \E i, j \in DOMAIN resumeLog : i < j /\ resumeLog[i] = resumeLog[j]

\* C3 as stated: when a run() call that observed cycle >= T returns, every
\* computation that awaited T has been resumed, whatever the usage reading.
TimerPunctualAsStated ==
    Returned => \A t \in Tasks : when[t] = 0 \/ when[t] > cycle

\* C3 amended: the fire step of the first run() call with cycle >= T puts
\* the computation on the ready queue; it has been resumed when the call
\* returns because the queue is empty, and it is still queued when the call
\* returns because the usage reading exceeded the budget.
TimerPunctual ==
    /\ InRun => \A t \in Tasks :
                   (when[t] # 0 /\ when[t] <= cycle) => status[t] = "queued"
    /\ lastOp = "break" => \A t \in Tasks : when[t] = 0 \/ when[t] > cycle

\* a due timer was fired by a run() call that stopped on the budget
TimerPunctualWitness ==
    /\ lastOp = "exhausted"
    /\ \E t \in Tasks : when[t] # 0 /\ when[t] <= cycle /\ status[t] = "queued"

\* the registrations held by the registry, with their keys
Registered(tm) ==
    UNION {{[key |-> k, task |-> tm[k][i].task, reg |-> tm[k][i].reg] :
               i \in {j \in DOMAIN tm[k] : tm[k][j] # None}} : k \in DOMAIN tm}

\* C4: at-most-once wake.  No waker is invoked twice; an invoked registration
\* is no longer in the registry; the fire step of run() at cycle c invokes
\* each registration with key <= c once, invokes no other, and leaves no
\* entry with key <= c behind.
AtMostOnceWake ==
    /\ [](\A r \in 1..MaxRegs : fireCount[r] <= 1)
    /\ [](\A e \in Registered(timers) : fireCount[e.reg] = 0)
    /\ [](lastOp = "fire" => \A k \in DOMAIN timers : k > cycle)
    /\ [][ (pc = "idle" /\ pc' = "loop") =>
             \A r \in 1..MaxRegs :
                fireCount'[r] = fireCount[r] +
                   (IF \E e \in Registered(timers) : e.reg = r /\ e.key <= cycle
                    THEN 1 ELSE 0) ]_vars

\* a registration was invoked, and run() was called again afterwards
AtMostOnceWakeWitness ==
    /\ lastOp = "fire"
    /\ \E r \in 1..MaxRegs : fireCount[r] = 1
    /\ \E t \in Tasks : status[t] = "done"
    /\ resumeLog # <<>>
    /\ queue = <<>>

\* C5: FIFO readiness order.  The runnables run so far, followed by the
\* ready queue, are the runnables pushed so far, in the order of the pushes.
FifoOrder == pushLog = resumeLog \o queue

\* three spawned computations were resumed in the order they were spawned
FifoOrderWitness ==
    /\ lastOp = "resume"
    /\ Len(resumeLog) >= 3
    /\ SubSeq(resumeLog, 1, 3) = <<1, 2, 3>>
    /\ SubSeq(pushLog, 1, 3) = <<1, 2, 3>>

\* C6: single registration.  At most one runtime exists, CURRENT is set
\* exactly when one exists, a construction fails only while one exists and
\* succeeds otherwise.
SingleRegistration ==
    /\ liveCount <= 1
    /\ current <=> liveCount = 1
    /\ lastOp = "new_panic" => current /\ liveCount = 1
    /\ lastOp = "new" => current /\ liveCount = 1
    /\ lastOp = "drop" => ~current /\ liveCount = 0

\* a second construction was tried while a runtime was live, and panicked
SingleRegistrationWitness ==
    /\ lastOp = "new_panic"
    /\ liveCount = 1
    /\ current

\* C7: budget exhaustion leaves the queue intact.  A loop test that reads
\* usage above the budget changes neither the ready queue nor any
\* computation.
QueueIntact ==
    [][ (pc = "loop" /\ usage > allocation) =>
          /\ queue' = queue
          /\ status' = status
          /\ pushLog' = pushLog
          /\ resumeLog' = resumeLog
          /\ timers' = timers ]_vars

\* run() stopped on the budget and two computations are still queued
QueueIntactWitness ==
    /\ lastOp = "exhausted"
    /\ usage > allocation
    /\ Len(queue) >= 2
    /\ \A i \in DOMAIN queue : status[queue[i]] = "queued"

StrictBudget ==
    [][ Resumes => usage < allocation ]_vars

\* the wakers the fire step at cycle c has to invoke
DueNow == {e \in Registered(timers) : e.key <= cycle}
FiresBefore(a, b) == a.key < b.key \/ (a.key = b.key /\ a.reg < b.reg)

\* C10: timer firing order.  The fire step of run() appends to the ready
\* queue the computations of the due registrations, ordered by key and,
\* within a key, by registration.
FiringOrder ==
    [][ (pc = "idle" /\ pc' = "loop") =>
          LET new == SubSeq(queue', Len(queue) + 1, Len(queue'))
              RegOf(t) == CHOOSE e \in DueNow : e.task = t
          IN  /\ Len(new) = Cardinality(DueNow)
              /\ {new[i] : i \in DOMAIN new} = {e.task : e \in DueNow}
              /\ \A i, j \in DOMAIN new :
                    i < j => FiresBefore(RegOf(new[i]), RegOf(new[j])) ]_vars

\* one fire step woke two computations parked under different keys, the one
\* with the larger key registered first
FiringOrderWitness ==
    /\ lastOp = "fire"
    /\ \E t, u \in Tasks :
          /\ t < u
          /\ status[t] = "queued" /\ status[u] = "queued"
          /\ when[t] # 0 /\ when[u] # 0
          /\ when[u] < when[t]
          /\ resumeLog = <<t, u>>

InLog(t, log) == \E i \in DOMAIN log : log[i] = t
Occurrences(t, q) == Cardinality({i \in DOMAIN q : q[i] = t})

\* C11: spawn only enqueues.  A spawned computation that run() has not yet
\* taken off the ready queue is on the queue exactly once and has made no
\* progress, and right after a spawn call the new computation is the newest
\* entry of the queue.
SpawnOnlyEnqueues ==
    /\ \A t \in Tasks :
          (status[t] # "unspawned" /\ ~InLog(t, resumeLog)) =>
              /\ status[t] = "queued"
              /\ when[t] = 0
              /\ Occurrences(t, queue) = 1
    /\ lastOp = "spawn" =>
          /\ queue # <<>>
          /\ ~InLog(queue[Len(queue)], resumeLog)
          /\ pushLog[Len(pushLog)] = queue[Len(queue)]

\* a computation was spawned behind another one that is still queued
SpawnOnlyEnqueuesWitness ==
    /\ lastOp = "spawn"
    /\ Len(queue) = 2
    /\ resumeLog = <<>>

\* this step is the timer block of a run() call / the return of one
FireStep == pc = "idle" /\ pc' = "loop"
NothingDue == \A k \in DOMAIN timers : k > cycle

\* C12: idle no-op.  A run() call that starts with an empty ready queue and
\* no registry entry with key <= cycle changes neither the queue nor the
\* registry nor any computation, resumes nothing and returns.
IdleNoOp ==
    [][ /\ (FireStep /\ queue = <<>> /\ NothingDue) =>
              /\ queue' = <<>>
              /\ timers' = timers
              /\ status' = status
              /\ resumeLog' = resumeLog
              /\ lastOp' = "fire"
        /\ (pc = "loop" /\ queue = <<>>) =>
              /\ pc' = "idle"
              /\ lastOp' \in {"break", "exhausted"}
              /\ queue' = <<>>
              /\ timers' = timers
              /\ status' = status
              /\ resumeLog' = resumeLog ]_vars

\* an over-budget run() call returned with the queue empty and a timer
\* still pending: it had nothing to fire and nothing to resume
IdleNoOpWitness ==
    /\ lastOp = "exhausted"
    /\ queue = <<>>
    /\ DOMAIN timers # {}

\* C13: an already-due park never registers.  A timer first polled at cycle
\* c with target T <= c changes neither the registry nor the registration
\* counter; a registration is made only for T > c, and then exactly one,
\* under key T, for the polling computation.
AlreadyDueNeverRegisters ==
    [][ Resumes =>
          /\ (lastPark' # 0 /\ lastPark' <= cycle) =>
                (timers' = timers /\ nextReg' = nextReg)
          /\ (timers' # timers \/ nextReg' # nextReg) =>
                /\ lastPark' > cycle
                /\ nextReg' = nextReg + 1
                /\ Registered(timers') = Registered(timers) \cup
                      {[key |-> lastPark', task |-> Resumed, reg |-> nextReg]} ]_vars

\* a computation awaited a timer whose target had already arrived
AlreadyDueNeverRegistersWitness ==
    /\ lastOp = "resume"
    /\ lastPark # 0
    /\ lastPark <= cycle

\* C14: fire before drain.  While run() is in its loop no registry entry is
\* due and no computation whose target has arrived is still parked, so
\* every resumption happens after all due timers were fired.
FireBeforeDrain ==
    pc = "loop" =>
        /\ NothingDue
        /\ \A t \in Tasks :
              status[t] = "parked" => (when[t] # 0 /\ when[t] > cycle)

\* the loop starts with a computation queued whose timer became due in this
\* very cycle
FireBeforeDrainWitness ==
    /\ lastOp = "fire"
    /\ cycle > 0
    /\ \E i \in DOMAIN queue : when[queue[i]] = cycle

\* C15: future timers untouched.  The timer block at cycle c removes the
\* entries with key <= c and no other, leaves the others as they were, and
\* neither invokes nor wakes any of their handles.
FutureTimersUntouched ==
    [][ FireStep =>
          /\ DOMAIN timers' = {k \in DOMAIN timers : k > cycle}
          /\ \A k \in DOMAIN timers' : timers'[k] = timers[k]
          /\ \A e \in Registered(timers) :
                e.key > cycle =>
                   /\ fireCount'[e.reg] = fireCount[e.reg]
                   /\ status'[e.task] = status[e.task] ]_vars

\* a timer block fired one registration and left a later one in the registry
FutureTimersUntouchedWitness ==
    /\ lastOp = "fire"
    /\ DOMAIN timers # {}
    /\ \E r \in 1..MaxRegs : fireCount[r] = 1
    /\ \E t \in Tasks : status[t] = "queued" /\ when[t] # 0

DueSlots ==
    UNION {{<<k, i>> : i \in {j \in DOMAIN timers[k] : timers[k][j] # None}} :
              k \in {d \in DOMAIN timers : d <= cycle}}
SlotBefore(a, b) == a[1] < b[1] \/ (a[1] = b[1] /\ a[2] < b[2])
HasDueTombstone ==
    \E k \in DOMAIN timers :
        k <= cycle /\ \E i \in DOMAIN timers[k] : timers[k][i] = None

FailedNewChangesNothing ==
    [][ /\ lastOp' = "new_panic" =>
              /\ current /\ current'
              /\ liveCount' = liveCount
              /\ allocation' = allocation
              /\ rtVars' = rtVars
              /\ pc' = pc
        /\ (lastOp = "new_panic" /\ lastOp' \in {"spawn", "spawn_panic"}) =>
              /\ lastOp' = "spawn"
              /\ Len(queue') = Len(queue) + 1
              /\ SubSeq(queue', 1, Len(queue)) = queue
              /\ status[queue'[Len(queue')]] = "unspawned" ]_vars

\* a construction failed while the live runtime had queued and parked work
FailedNewChangesNothingWitness ==
    /\ lastOp = "new_panic"
    /\ queue # <<>>
    /\ DOMAIN timers # {}

\* C19: no stale registry keys.  When a run() call at cycle c has returned,
\* every key of the registry is above c.
NoStaleKeys ==
    Returned => \A k \in DOMAIN timers : k > cycle

\* run() returned after a registration was fired, with a later one pending
NoStaleKeysWitness ==
    /\ Returned
    /\ DOMAIN timers # {}
    /\ \E r \in 1..MaxRegs : fireCount[r] = 1

\* the provisos of C20: run() is called again and again, and again and
\* again a loop test of run() reads a usage within the budget
RunsForever == []<>(lastOp = "fire")
BudgetRecurs == []<>(pc = "loop" /\ usage <= allocation)

\* C20: no lost wake-ups.  In the life of a runtime a queued computation
\* leaves the ready queue only by being resumed; if run() is called again
\* and again and the budget recurs, every queued computation is eventually
\* resumed, and every parked computation whose target cycle has arrived is
\* eventually resumed (or has been cancelled).
NoLostWakeups ==
    /\ [][ \A t \in Tasks :
              (status[t] = "queued" /\ status'[t] # "queued") =>
                  (Resumes /\ Resumed = t) ]_vars
    /\ (RunsForever /\ BudgetRecurs) =>
          \A t \in Tasks :
             /\ (status[t] = "queued") ~> (status[t] \in {"done", "parked"})
             /\ (status[t] = "parked" /\ when[t] <= cycle) ~>
                   (status[t] = "done" \/ (status[t] = "parked" /\ when[t] > cycle))

\* a computation that parked on a timer was woken by the timer block and
\* has been resumed again
NoLostWakeupsWitness ==
    /\ lastOp = "resume"
    /\ \E i, j \in DOMAIN resumeLog : i < j /\ resumeLog[i] = resumeLog[j]
    /\ \E r \in 1..MaxRegs : fireCount[r] = 1
    /\ \E t \in Tasks : status[t] = "done"

====
